---- MODULE Spec2Model ----
(***************************************************************************)
(* Upload coordination of the debuginfo store (src/debuginfo_store/mod.rs):*)
(* the four RPC handlers ShouldInitiateUpload, InitiateUpload, Upload and  *)
(* MarkUploadFinished run by concurrent agents over the metadata store,    *)
(* the upstream debuginfod mirror and the object bucket.                   *)
(*                                                                         *)
(* Handlers are cut where the code touches shared state or awaits: one     *)
(* metadata-store call (taken under the store's mutex) per step.           *)
(*                                                                         *)
(* Time is counted in seconds; protobuf timestamps carry seconds only      *)
(* (nanos = 0), so timestamp_opt always yields a valid instant.            *)
(***************************************************************************)
EXTENDS Integers, Sequences, FiniteSets, Bags, TLC

\* ------------------------------------------------------------------ bounds
MaxUploads == 2      \* upload IDs minted in one behaviour
MaxEpochs == 1       \* staleness windows the clock may run through
MaxOffset == 1       \* seconds observed at the start of each window
MaxChunkFrames == 2  \* frames after the header of one Upload stream

\* ------------------------------------------------ configuration (main.rs)
max_upload_duration == 900
max_upload_size == 1000000000
StaleGrace == 120

\* ------------------------------------------------------ optional values
None == <<>>

Some(v) == <<v>>

\* ---------------------------------------------------------- input domains
ShortBuildId == <<"a", "b">>

LongBuildId == <<"a", "b", "c", "d">>

BuildIds == {ShortBuildId, LongBuildId}

\* DebuginfoType: 0 = DebuginfoUnspecified, 1 = Executable
Kinds == {0, 1}

Executable == 1

\* wire values of the type field: the two kinds and a number outside the enum
RawTypes == {0, 1, 7}

\* BuildIdType on the wire: 0 = UnknownUnspecified, 1 = Gnu, 3 = Go
Gnu == 1

UnknownUnspecified == 0

RawBuildIdTypes == {0, 1, 3}

Hashes == {"", "h1", "h2"}

Sizes == {0, 1024, 2000000000}

UploadIds == 1 .. MaxUploads

\* an upload ID no Initiate ever mints
ForeignUploadId == MaxUploads + 1

\* the i-th ChunkData frame of a stream carries the byte i
chunk_at(i) == [t |-> "Chunk", bytes |-> <<i>>]

\* the instants at which the clock is observed: the start, and the seconds
\* from the end of each staleness window on
Times == {0} \cup {e * (max_upload_duration + StaleGrace) + o :
                     e \in 1 .. MaxEpochs, o \in 0 .. MaxOffset}

Keys == BuildIds \X Kinds

\* prost getter r#type(): a number outside the enum reads as the default
type_of(raw) == IF raw \in Kinds THEN raw ELSE 0

\* prost getter build_id_type(): same defaulting
build_id_type_of(raw) == IF raw \in {0, 1, 2, 3} THEN raw ELSE UnknownUnspecified

\* ----------------------------------------------------------- reason codes
REASON_DEBUGINFO_IN_DEBUGINFOD == "InDebuginfod"
REASON_FIRST_TIME_SEEN == "FirstTimeSeen"
REASON_UPLOAD_STALE == "UploadStale"
REASON_UPLOAD_IN_PROGRESS == "UploadInProgress"
REASON_DEBUGINFO_ALREADY_EXISTS == "AlreadyExists"
REASON_DEBUGINFO_ALREADY_EXISTS_BUT_FORCED == "AlreadyExistsButForced"
REASON_DEBUGINFO_INVALID == "DebuginfoInvalid"
REASON_DEBUGINFO_EQUAL == "DebuginfoEqual"
REASON_DEBUGINFO_NOT_EQUAL == "DebuginfoNotEqual"
REASON_DEBUGINFOD_SOURCE == "DebuginfodSource"
REASON_DEBUGINFOD_INVALID == "DebuginfodInvalid"

\* Ok(ShouldInitiateUploadResponse { should_initiate_upload, reason })
Decision(b, r) == [code |-> "Ok", should |-> b, reason |-> r]

\* Err(Status::<code>(..))
Status(c) == [code |-> c]

\* ------------------------------------------------- the decision procedure
validate_buildid(id) == IF Len(id) <= 2 THEN Status("InvalidArgument") ELSE Status("Ok")

\* mutant: the comparison with the clock is not strict
is_upload_stale_not_strict(upload, time_now) ==
  IF upload.started_at # None
  THEN upload.started_at[1] + (max_upload_duration + StaleGrace) <= time_now
  ELSE FALSE

is_upload_stale(upload, time_now) ==
  IF upload.started_at # None
  THEN upload.started_at[1] + (max_upload_duration + StaleGrace) < time_now
  ELSE FALSE

handle_uploading_state(upload, time_now) ==
  IF is_upload_stale(upload, time_now)
  THEN Decision(TRUE, REASON_UPLOAD_STALE)
  ELSE Decision(FALSE, REASON_UPLOAD_IN_PROGRESS)

\* mutant: a record without quality counts as valid ELF
is_valid_elf_default_valid(debuginfo) ==
  IF debuginfo.quality = None THEN TRUE ELSE ~debuginfo.quality[1].not_valid_elf

is_valid_elf(debuginfo) ==
  IF debuginfo.quality = None THEN FALSE ELSE ~debuginfo.quality[1].not_valid_elf

\* mutant: force selects the reason but not the verdict
handle_invalid_elf_force_in_reason_only(request) ==
  Decision(FALSE,
           IF request.force
           THEN REASON_DEBUGINFO_ALREADY_EXISTS_BUT_FORCED
           ELSE REASON_DEBUGINFO_ALREADY_EXISTS)

handle_invalid_elf(request) ==
  Decision(request.force,
           IF request.force
           THEN REASON_DEBUGINFO_ALREADY_EXISTS_BUT_FORCED
           ELSE REASON_DEBUGINFO_ALREADY_EXISTS)

compare_hash(request, debuginfo) ==
  IF debuginfo.upload # None /\ debuginfo.upload[1].hash = request.hash
  THEN Decision(FALSE, REASON_DEBUGINFO_EQUAL)
  ELSE IF debuginfo.upload # None
       THEN Decision(TRUE, REASON_DEBUGINFO_NOT_EQUAL)
       ELSE Decision(TRUE, REASON_DEBUGINFO_INVALID)

handle_uploaded_state(request, debuginfo) ==
  IF ~is_valid_elf(debuginfo)
  THEN handle_invalid_elf(request)
  ELSE IF request.hash = ""
       THEN Decision(TRUE, REASON_DEBUGINFO_INVALID)
       ELSE compare_hash(request, debuginfo)

handle_upload_source(request, debuginfo, time_now) ==
  IF debuginfo.upload = None
  THEN Status("Internal")
  ELSE CASE debuginfo.upload[1].state = "Uploading" ->
              handle_uploading_state(debuginfo.upload[1], time_now)
         [] debuginfo.upload[1].state = "Uploaded" ->
              handle_uploaded_state(request, debuginfo)
         [] OTHER -> Status("Internal")

handle_debuginfod_source(debuginfo) ==
  Decision(TRUE,
           IF ~is_valid_elf(debuginfo)
           THEN REASON_DEBUGINFOD_SOURCE
           ELSE REASON_DEBUGINFOD_INVALID)

handle_existing_debuginfo(request, debuginfo, time_now) ==
  CASE debuginfo.source = "Debuginfod" -> handle_debuginfod_source(debuginfo)
    [] debuginfo.source = "Upload" -> handle_upload_source(request, debuginfo, time_now)
    [] OTHER -> Status("Internal")

\* mutant: only Gnu Build IDs are looked up upstream
consults_upstream_gnu_only(request) ==
  build_id_type_of(request.build_id_type) = Gnu

\* handle_new_build_id up to its await: TRUE when the upstream mirror is asked
consults_upstream(request) ==
  build_id_type_of(request.build_id_type) \in {Gnu, UnknownUnspecified}

\* handle_new_build_id after the await, given the mirror's answer
new_build_id_decision(exists) ==
  IF exists # ""
  THEN Decision(FALSE, REASON_DEBUGINFO_IN_DEBUGINFOD)
  ELSE Decision(TRUE, REASON_FIRST_TIME_SEEN)

\* ------------------------------------------------------------------ state
Agents == {"a1", "a2"}

VARIABLES
  store,     \* MetadataStore: (Build ID, kind) -> optional Debuginfo record
  bucket,    \* object bucket: upload ID -> optional payload
  minted,    \* number of upload IDs minted so far (ulid::Ulid::new)
  now,       \* the wall clock read by time_now()
  calls,     \* bag of the handlers suspended at an await, with their live locals
  last,      \* the RPC that has just returned, with its reply, until delivered
  issued,    \* history: (key, upload ID) pairs returned by InitiateUpload
  finished,  \* history: upload IDs whose MarkUploadFinished was accepted
  raced      \* history: pairs of upload IDs returned by overlapping InitiateUploads

vars == <<store, bucket, minted, now, calls, last, issued, finished, raced>>

NoReply == [op |-> "none"]

key_of(request) == <<request.build_id, type_of(request.type)>>

\* ------------------------------------------------ MetadataStore transitions
fetch(st, build_id, kind) == st[<<build_id, kind>>]

mark_as_uploading_fails(st, build_id, hash, kind) ==
  LET rec == st[<<build_id, kind>>] IN
  /\ rec # None
  /\ rec[1].upload # None
  /\ rec[1].upload[1].state = "Uploaded"
  /\ rec[1].upload[1].hash = hash

mark_as_uploading(st, build_id, upload_id, hash, kind, started_at) ==
  [st EXCEPT ![<<build_id, kind>>] =
     Some([source |-> "Upload",
           quality |-> None,
           upload |-> Some([id |-> upload_id, hash |-> hash, state |-> "Uploading",
                            started_at |-> Some(started_at), finished_at |-> None])])]

mark_as_uploaded_fails(st, build_id, upload_id, kind) ==
  LET rec == st[<<build_id, kind>>] IN
  \/ rec = None
  \/ rec[1].upload = None
  \/ rec[1].upload[1].id # upload_id

mark_as_uploaded(st, build_id, upload_id, kind, finished_at) ==
  [st EXCEPT ![<<build_id, kind>>] =
     Some([@[1] EXCEPT !.upload =
             Some([@[1] EXCEPT !.state = "Uploaded",
                               !.finished_at = Some(finished_at)])])]

mark_as_debuginfod_source(st, build_id, kind) ==
  [st EXCEPT ![<<build_id, kind>>] =
     IF @ = None
     THEN Some([source |-> "Debuginfod", quality |-> None, upload |-> None])
     ELSE Some([@[1] EXCEPT !.source = "Debuginfod", !.upload = None])]

\* the symbolizer's validator records its verdict on bytes it could fetch
set_quality(st, key, not_valid_elf) ==
  [st EXCEPT ![key] = Some([@[1] EXCEPT !.quality = Some([not_valid_elf |-> not_valid_elf])])]

has_bytes(rec) ==
  /\ rec # None
  /\ \/ rec[1].source = "Debuginfod"
     \/ rec[1].upload # None /\ rec[1].upload[1].state = "Uploaded"

\* ------------------------------------------------------------------- Init
Init ==
  /\ store = [k \in Keys |-> None]
  /\ bucket = [u \in UploadIds |-> None]
  /\ minted = 0
  /\ now = 0
  /\ calls = EmptyBag
  /\ last = NoReply
  /\ issued = {}
  /\ finished = {}
  /\ raced = {}

\* ------------------------------------------------------------ request sets
\* A handler that returns early never looks at the remaining fields, so the
\* requests it rejects up front are drawn with the other fields fixed.
\* The clients of a specification use the kinds in `kinds`.
ShouldInitiateRequests(kinds) ==
  {r \in [build_id : BuildIds, hash : Hashes, force : BOOLEAN,
          type : kinds, build_id_type : RawBuildIdTypes] :
     r.build_id = ShortBuildId =>
       (r.hash = "h1" /\ ~r.force /\ r.type = Executable /\ r.build_id_type = Gnu)}

InitiateRequests(kinds) ==
  {r \in [build_id : BuildIds, hash : Hashes, size : Sizes, force : BOOLEAN,
          type : kinds, build_id_type : RawBuildIdTypes] :
     (r.hash = "" \/ r.size = 0 \/ r.build_id = ShortBuildId) =>
       /\ ~r.force /\ r.type = Executable /\ r.build_id_type = Gnu
       /\ Cardinality({b \in {r.hash = "", r.size = 0, r.build_id = ShortBuildId} : b}) = 1}

MarkFinishedRequests(kinds) ==
  {r \in [build_id : BuildIds, upload_id : UploadIds \cup {ForeignUploadId}, type : kinds] :
     r.build_id = ShortBuildId => (r.upload_id = 1 /\ r.type = Executable)}

\* first frame of an Upload stream: end of stream, transport error, a frame
\* without data, a ChunkData frame, or the Info header
FirstFrames(kinds) ==
  {[t |-> "End"], [t |-> "Err"], [t |-> "Empty"], chunk_at(1)}
  \cup {r \in [t : {"Info"}, build_id : BuildIds,
               upload_id : UploadIds \cup {ForeignUploadId},
               type : kinds \cup (RawTypes \ Kinds)] :
          (r.build_id = ShortBuildId \/ r.type \notin Kinds) =>
            (r.upload_id = 1 /\ (r.build_id = ShortBuildId => r.type = Executable))}

BadFrames == {[t |-> "Err"], [t |-> "Empty"], [t |-> "Info"]}

\* the frames read after the header: ChunkData frames, ended by the end of
\* the stream or by the first frame that is not ChunkData
ReadFrames ==
  {[i \in 1 .. n |-> chunk_at(i)] : n \in 0 .. MaxChunkFrames}
  \cup {[i \in 1 .. n |-> IF i = n THEN bad ELSE chunk_at(i)] :
          n \in 1 .. MaxChunkFrames, bad \in BadFrames}

\* what debuginfod.exists may answer
ExistsAnswers == {"", "https://debuginfod.example"}

\* ------------------------------------------------------------ the handlers
\* Every agent runs one RPC at a time: a handler starts while an agent is free
CanStart == BagCardinality(calls) < Cardinality(Agents)

Suspend(c) == calls' = calls (+) SetToBag({c})

Resume(c) == calls (-) SetToBag({c})

\* pre: the record of the request's key before the handler's last step
Reply(op, request, reply, pre) ==
  last' = [op |-> op, request |-> request, reply |-> reply, pre |-> pre]

\* seen: the record the handler fetched; exists: the mirror's answer, if asked
ShouldInitiateReply(request, reply, seen, exists, pre) ==
  last' = [op |-> "ShouldInitiate", request |-> request, reply |-> reply,
           seen |-> seen, exists |-> exists, pre |-> pre]

\* should_initiate_upload up to the point where it returns or awaits the
\* mirror: the reply, or None when debuginfod.exists is awaited
should_initiate_upload_begin(request, st, time_now) ==
  LET debuginfo == fetch(st, request.build_id, type_of(request.type)) IN
  IF validate_buildid(request.build_id).code # "Ok"
  THEN Some(validate_buildid(request.build_id))
  ELSE IF debuginfo # None
       THEN Some(handle_existing_debuginfo(request, debuginfo[1], time_now))
       ELSE IF ~consults_upstream(request)
            THEN Some(Decision(TRUE, REASON_FIRST_TIME_SEEN))
            ELSE None

\* mutant: the Debuginfod source is recorded whatever the mirror answered
handle_new_build_id_store_always_marks(request, st, exists) ==
  mark_as_debuginfod_source(st, request.build_id, type_of(request.type))

\* handle_new_build_id after the await: the store it leaves
handle_new_build_id_store(request, st, exists) ==
  IF exists # ""
  THEN mark_as_debuginfod_source(st, request.build_id, type_of(request.type))
  ELSE st

\* mutant: the announced size is not compared with max_upload_size
initiate_upload_check_any_size(request, should_initiate) ==
  IF should_initiate.code # "Ok"
  THEN Some(should_initiate)
  ELSE IF ~should_initiate.should
       THEN IF should_initiate.reason = REASON_DEBUGINFO_EQUAL
            THEN Some(Status("AlreadyExists"))
            ELSE Some(Status("FailedPrecondition"))
       ELSE None

\* initiate_upload between the inner decision and the minting of the upload
\* ID: the error it returns, or None when it goes on to mark_as_uploading
initiate_upload_check(request, should_initiate) ==
  IF should_initiate.code # "Ok"
  THEN Some(should_initiate)
  ELSE IF ~should_initiate.should
       THEN IF should_initiate.reason = REASON_DEBUGINFO_EQUAL
            THEN Some(Status("AlreadyExists"))
            ELSE Some(Status("FailedPrecondition"))
       ELSE IF request.size > max_upload_size
            THEN Some(Status("InvalidArgument"))
            ELSE None

\* inner: the decision of the inner should_initiate_upload, if it was reached;
\* seen: the upload ID of the record that decision was taken on
InitiateReply(request, status, inner, seen, pre) ==
  last' = [op |-> "Initiate", request |-> request, reply |-> status,
           inner |-> inner, seen |-> seen, pre |-> pre]

\* the locals still read after each await (the other request fields are dead)
AwaitingExists(op, request) ==
  [pc |-> "exists", op |-> op,
   request |-> IF op = "ShouldInitiate"
               THEN [build_id |-> request.build_id, type |-> request.type]
               ELSE [build_id |-> request.build_id, type |-> request.type,
                     hash |-> request.hash, size |-> request.size]]

\* the upload ID carried by an optional record, if any
upload_id_of(rec) ==
  IF rec # None /\ rec[1].upload # None THEN Some(rec[1].upload[1].id) ELSE None

\* inner: the decision taken; seen: the upload ID of the record it was taken on
AboutToMark(request, inner, seen) ==
  [pc |-> "mark", op |-> "Initiate",
   request |-> [build_id |-> request.build_id, type |-> request.type,
                hash |-> request.hash, size |-> request.size],
   inner |-> inner, seen |-> seen]

ShouldInitiateUpload(request) ==
  /\ CanStart
  /\ LET begin == should_initiate_upload_begin(request, store, now) IN
     IF begin # None
     THEN /\ ShouldInitiateReply(request, begin[1], store[key_of(request)], None,
                                 store[key_of(request)])
          /\ UNCHANGED calls
     ELSE /\ Suspend(AwaitingExists("ShouldInitiate", request))
          /\ last' = NoReply
  /\ UNCHANGED <<store, bucket, minted, now, issued, finished, raced>>

InitiateUpload(request) ==
  /\ CanStart
  /\ minted + BagCardinality(calls) < MaxUploads
  /\ IF request.hash = "" \/ request.size = 0
     THEN /\ InitiateReply(request, Status("InvalidArgument"), None, None,
                           store[key_of(request)])
          /\ UNCHANGED calls
     ELSE LET begin == should_initiate_upload_begin(request, store, now) IN
          IF begin = None
          THEN /\ Suspend(AwaitingExists("Initiate", request))
               /\ last' = NoReply
          ELSE IF initiate_upload_check(request, begin[1]) # None
               THEN /\ InitiateReply(request, initiate_upload_check(request, begin[1])[1],
                                     begin, upload_id_of(store[key_of(request)]),
                                     store[key_of(request)])
                    /\ UNCHANGED calls
               ELSE /\ Suspend(AboutToMark(request, begin,
                                            upload_id_of(store[key_of(request)])))
                    /\ last' = NoReply
  /\ UNCHANGED <<store, bucket, minted, now, issued, finished, raced>>

\* debuginfod.exists returns to the handler awaiting it
ExistsReturns(c, exists) ==
  /\ BagIn(c, calls)
  /\ c.pc = "exists"
  /\ LET request == c.request
         decision == new_build_id_decision(exists)
     IN /\ store' = handle_new_build_id_store(request, store, exists)
        /\ IF c.op = "ShouldInitiate"
           THEN /\ ShouldInitiateReply(request, decision, None, Some(exists),
                                       store[key_of(request)])
                /\ calls' = Resume(c)
           ELSE IF initiate_upload_check(request, decision) # None
                THEN /\ InitiateReply(request, initiate_upload_check(request, decision)[1],
                                      Some(decision), None, store[key_of(request)])
                     /\ calls' = Resume(c)
                ELSE /\ calls' = Resume(c) (+) SetToBag({AboutToMark(request, Some(decision),
                                                                     None)})
                     /\ last' = NoReply
  /\ UNCHANGED <<bucket, minted, now, issued, finished, raced>>

\* initiate_upload from Ulid::new() to its return
InitiateMark(c) ==
  /\ BagIn(c, calls)
  /\ c.pc = "mark"
  /\ LET request == c.request
         kind == type_of(request.type)
         upload_id == minted + 1
     IN /\ minted' = upload_id
        /\ calls' = Resume(c)
        /\ IF mark_as_uploading_fails(store, request.build_id, request.hash, kind)
           THEN /\ InitiateReply(request, Status("Internal"), c.inner, c.seen,
                                 store[key_of(request)])
                /\ UNCHANGED <<store, issued, raced>>
           ELSE /\ store' = mark_as_uploading(store, request.build_id, upload_id,
                                              request.hash, kind, now)
                /\ issued' = issued \cup {<<key_of(request), upload_id>>}
                /\ raced' = LET over == upload_id_of(store[key_of(request)]) IN
                            IF over # None /\ over # c.seen
                            THEN raced \cup {<<over[1], upload_id>>}
                            ELSE raced
                /\ InitiateReply(request,
                                 [code |-> "Ok", upload_id |-> upload_id,
                                  build_id |-> request.build_id,
                                  upload_strategy |-> "Grpc", signed_url |-> "",
                                  type |-> request.type],
                                 c.inner, c.seen, store[key_of(request)])
  /\ UNCHANGED <<bucket, now, finished>>

\* upload from the first frame to the upload-ID comparison
upload_header_check(first, st) ==
  CASE first.t = "End" -> Status("InvalidArgument")
    [] first.t = "Err" -> Status("Internal")
    [] first.t = "Empty" -> Status("InvalidArgument")
    [] first.t = "Chunk" -> Status("InvalidArgument")
    [] OTHER ->
         IF first.type \notin Kinds
         THEN Status("InvalidArgument")
         ELSE IF validate_buildid(first.build_id).code # "Ok"
              THEN validate_buildid(first.build_id)
              ELSE LET dbginfo == fetch(st, first.build_id, first.type) IN
                   IF dbginfo = None
                   THEN Status("FailedPrecondition")
                   ELSE IF dbginfo[1].upload = None
                        THEN Status("InvalidArgument")
                        ELSE IF dbginfo[1].upload[1].id # first.upload_id
                             THEN Status("FailedPrecondition")
                             ELSE Status("Ok")

\* mutant: each chunk is put in front of the buffer
RECURSIVE read_chunks_prepending(_, _)
read_chunks_prepending(frames, chunks) ==
  IF frames = <<>>
  THEN [code |-> "Ok", chunks |-> chunks]
  ELSE CASE Head(frames).t = "Chunk" ->
              read_chunks_prepending(Tail(frames), Head(frames).bytes \o chunks)
         [] Head(frames).t = "Err" -> [code |-> "StreamError", chunks |-> chunks]
         [] OTHER -> [code |-> "InvalidArgument", chunks |-> chunks]

\* mutant: a frame that is not ChunkData is skipped
RECURSIVE read_chunks_skipping(_, _)
read_chunks_skipping(frames, chunks) ==
  IF frames = <<>>
  THEN [code |-> "Ok", chunks |-> chunks]
  ELSE CASE Head(frames).t = "Chunk" ->
              read_chunks_skipping(Tail(frames), chunks \o Head(frames).bytes)
         [] Head(frames).t = "Err" -> [code |-> "StreamError", chunks |-> chunks]
         [] OTHER -> read_chunks_skipping(Tail(frames), chunks)

\* the loop over the remaining frames: the status it stops with and the buffer
RECURSIVE read_chunks(_, _)
read_chunks(frames, chunks) ==
  IF frames = <<>>
  THEN [code |-> "Ok", chunks |-> chunks]
  ELSE CASE Head(frames).t = "Chunk" ->
              read_chunks(Tail(frames), chunks \o Head(frames).bytes)
         [] Head(frames).t = "Err" -> [code |-> "StreamError", chunks |-> chunks]
         [] OTHER -> [code |-> "InvalidArgument", chunks |-> chunks]

\* at: where the handler returned (header check, frame loop, after the put)
UploadReply(at, request, reply, pre) ==
  last' = [op |-> "Upload", at |-> at, request |-> request, reply |-> reply, pre |-> pre]

upload_pre(first, st) ==
  IF first.t = "Info" /\ first.type \in Kinds THEN st[<<first.build_id, first.type>>] ELSE None

Upload(first, frames) ==
  /\ CanStart
  /\ LET header == upload_header_check(first, store)
         request == [first |-> first, frames |-> frames]
     IN IF header.code # "Ok"
        THEN /\ frames = <<>>
             /\ UploadReply("header", request, header, upload_pre(first, store))
             /\ UNCHANGED calls
        ELSE IF read_chunks(frames, <<>>).code # "Ok"
             THEN /\ UploadReply("frames", request, Status(read_chunks(frames, <<>>).code),
                                 upload_pre(first, store))
                  /\ UNCHANGED calls
             ELSE /\ Suspend([pc |-> "put", op |-> "Upload", request |-> request])
                  /\ last' = NoReply
  /\ UNCHANGED <<store, bucket, minted, now, issued, finished, raced>>

\* mutant: the object is written although the put reports a failure
UploadPut_written_on_failure(c, put_ok) ==
  /\ BagIn(c, calls)
  /\ c.pc = "put"
  /\ LET first == c.request.first
         chunks == read_chunks(c.request.frames, <<>>).chunks
     IN /\ bucket' = [bucket EXCEPT ![first.upload_id] = Some(chunks)]
        /\ UploadReply("put", c.request,
                 IF put_ok
                 THEN [code |-> "Ok", build_id |-> first.build_id, size |-> Len(chunks)]
                 ELSE Status("Internal"),
                 upload_pre(first, store))
  /\ calls' = Resume(c)
  /\ UNCHANGED <<store, minted, now, issued, finished, raced>>

\* bucket.put returns to the Upload handler awaiting it
UploadPut(c, put_ok) ==
  /\ BagIn(c, calls)
  /\ c.pc = "put"
  /\ LET first == c.request.first
         chunks == read_chunks(c.request.frames, <<>>).chunks
     IN /\ bucket' = IF put_ok
                     THEN [bucket EXCEPT ![first.upload_id] = Some(chunks)]
                     ELSE bucket
        /\ UploadReply("put", c.request,
                 IF put_ok
                 THEN [code |-> "Ok", build_id |-> first.build_id, size |-> Len(chunks)]
                 ELSE Status("Internal"),
                 upload_pre(first, store))
  /\ calls' = Resume(c)
  /\ UNCHANGED <<store, minted, now, issued, finished, raced>>

\* mutant: the error of mark_as_uploaded reaches the client under its own
\* kind, NotFound, instead of Internal
MarkUploadFinished_error_passed_on(request) ==
  /\ CanStart
  /\ LET kind == type_of(request.type) IN
     IF validate_buildid(request.build_id).code # "Ok"
     THEN /\ Reply("MarkFinished", request, validate_buildid(request.build_id),
                   store[key_of(request)])
          /\ UNCHANGED <<store, finished>>
     ELSE IF mark_as_uploaded_fails(store, request.build_id, request.upload_id, kind)
          THEN /\ Reply("MarkFinished", request, Status("NotFound"), store[key_of(request)])
               /\ UNCHANGED <<store, finished>>
          ELSE /\ store' = mark_as_uploaded(store, request.build_id, request.upload_id,
                                            kind, now)
               /\ finished' = finished \cup {request.upload_id}
               /\ Reply("MarkFinished", request, Status("Ok"), store[key_of(request)])
  /\ UNCHANGED <<bucket, minted, now, calls, issued, raced>>

\* mutant: the error of mark_as_uploaded is dropped
MarkUploadFinished_error_dropped(request) ==
  /\ CanStart
  /\ LET kind == type_of(request.type) IN
     IF validate_buildid(request.build_id).code # "Ok"
     THEN /\ Reply("MarkFinished", request, validate_buildid(request.build_id),
                   store[key_of(request)])
          /\ UNCHANGED <<store, finished>>
     ELSE IF mark_as_uploaded_fails(store, request.build_id, request.upload_id, kind)
          THEN /\ Reply("MarkFinished", request, Status("Ok"), store[key_of(request)])
               /\ UNCHANGED <<store, finished>>
          ELSE /\ store' = mark_as_uploaded(store, request.build_id, request.upload_id,
                                            kind, now)
               /\ finished' = finished \cup {request.upload_id}
               /\ Reply("MarkFinished", request, Status("Ok"), store[key_of(request)])
  /\ UNCHANGED <<bucket, minted, now, calls, issued, raced>>

MarkUploadFinished(request) ==
  /\ CanStart
  /\ LET kind == type_of(request.type) IN
     IF validate_buildid(request.build_id).code # "Ok"
     THEN /\ Reply("MarkFinished", request, validate_buildid(request.build_id),
                   store[key_of(request)])
          /\ UNCHANGED <<store, finished>>
     ELSE IF mark_as_uploaded_fails(store, request.build_id, request.upload_id, kind)
          THEN /\ Reply("MarkFinished", request, Status("Internal"), store[key_of(request)])
               /\ UNCHANGED <<store, finished>>
          ELSE /\ store' = mark_as_uploaded(store, request.build_id, request.upload_id,
                                            kind, now)
               /\ finished' = finished \cup {request.upload_id}
               /\ Reply("MarkFinished", request, Status("Ok"), store[key_of(request)])
  /\ UNCHANGED <<bucket, minted, now, calls, issued, raced>>

\* ------------------------------------------------------------ environment
Tick(t) ==
  /\ t > now
  /\ now' = t
  /\ last' = NoReply
  /\ UNCHANGED <<store, bucket, minted, calls, issued, finished, raced>>

SetQuality(key, not_valid_elf) ==
  /\ has_bytes(store[key])
  /\ store[key][1].quality # Some([not_valid_elf |-> not_valid_elf])
  /\ store' = set_quality(store, key, not_valid_elf)
  /\ last' = NoReply
  /\ UNCHANGED <<bucket, minted, now, calls, issued, finished, raced>>

\* the reply reaches the client
Return ==
  /\ last # NoReply
  /\ last' = NoReply
  /\ UNCHANGED <<store, bucket, minted, now, calls, issued, finished, raced>>

Step(kinds) ==
  \/ \E request \in ShouldInitiateRequests(kinds) : ShouldInitiateUpload(request)
  \/ \E request \in InitiateRequests(kinds) : InitiateUpload(request)
  \/ \E c \in BagToSet(calls), exists \in ExistsAnswers : ExistsReturns(c, exists)
  \/ \E c \in BagToSet(calls) : InitiateMark(c)
  \/ \E first \in FirstFrames(kinds), frames \in ReadFrames : Upload(first, frames)
  \/ \E c \in BagToSet(calls), put_ok \in BOOLEAN : UploadPut(c, put_ok)
  \/ \E request \in MarkFinishedRequests(kinds) : MarkUploadFinished(request)
  \/ \E t \in Times : Tick(t)
  \/ \E key \in Keys, not_valid_elf \in BOOLEAN : SetQuality(key, not_valid_elf)

\* agents that upload executables
Next == (last = NoReply /\ Step({Executable})) \/ Return

Spec == Init /\ [][Next]_vars

\* the same agents taking turns: while a handler is suspended at an await no
\* other step is taken but its resumption
NextSeq ==
  \/ /\ last = NoReply
     /\ Step({Executable})
     /\ calls # EmptyBag => BagCardinality(calls') < BagCardinality(calls)
  \/ Return

SpecSeq == Init /\ [][NextSeq]_vars

\* --------------------------------------------------- the handlers, run alone
\* should_initiate_upload run without interleaving, the mirror answering
\* `exists`: its reply and the store it leaves
should_initiate_upload(request, st, time_now, exists) ==
  LET begin == should_initiate_upload_begin(request, st, time_now) IN
  IF begin # None
  THEN [reply |-> begin[1], store |-> st]
  ELSE [reply |-> new_build_id_decision(exists),
        store |-> handle_new_build_id_store(request, st, exists)]

\* ------------------------------------------------------------- properties
Uploading(rec) == rec # None /\ rec[1].upload # None /\ rec[1].upload[1].state = "Uploading"

Uploaded(rec) == rec # None /\ rec[1].upload # None /\ rec[1].upload[1].state = "Uploaded"

\* the reasons of the Uploaded branch of the decision
UploadedReasons ==
  {REASON_DEBUGINFO_ALREADY_EXISTS, REASON_DEBUGINFO_ALREADY_EXISTS_BUT_FORCED,
   REASON_DEBUGINFO_INVALID, REASON_DEBUGINFO_EQUAL, REASON_DEBUGINFO_NOT_EQUAL}

InitiateSucceeded == last.op = "Initiate" /\ last.reply.code = "Ok"

\* C1 (as claimed, for the Initiate calls that are not forced and that decide
\* on the Uploaded record itself): an Initiate puts an Uploaded record back to
\* Uploading only if the record is marked not_valid_elf and the hash of the
\* Initiate differs from the recorded hash.
C1_UploadedReplacedOnlyIfInvalidAndNewHash ==
  (/\ InitiateSucceeded
   /\ Uploaded(last.pre)
   /\ last.seen = upload_id_of(last.pre)
   /\ last.inner[1].reason \in UploadedReasons \ {REASON_DEBUGINFO_ALREADY_EXISTS_BUT_FORCED})
  => /\ last.pre[1].quality = Some([not_valid_elf |-> TRUE])
     /\ last.request.hash # last.pre[1].upload[1].hash

MarkFinishedAccepted == last.op = "MarkFinished" /\ last.reply.code = "Ok"

\* C2 (as claimed): an accepted MarkFinished names an upload ID that an earlier
\* Initiate returned for the same key, and finds the record carrying that ID
\* in state Uploading (it is not accepted for a record already Uploaded).
C2_MarkFinishedOnlyFromUploading ==
  MarkFinishedAccepted
  => /\ <<key_of(last.request), last.request.upload_id>> \in issued
     /\ Uploading(last.pre)
     /\ last.pre[1].upload[1].id = last.request.upload_id

\* C2 (amended): an accepted MarkFinished names an upload ID that an earlier
\* Initiate returned for the same key; the record carried that ID in state
\* Uploading or Uploaded before, and carries it in state Uploaded after.
C2_MarkFinishedOnlyForIssuedId ==
  MarkFinishedAccepted
  => /\ <<key_of(last.request), last.request.upload_id>> \in issued
     /\ Uploading(last.pre) \/ Uploaded(last.pre)
     /\ last.pre[1].upload[1].id = last.request.upload_id
     /\ Uploaded(store[key_of(last.request)])
     /\ store[key_of(last.request)][1].upload[1].id = last.request.upload_id

\* C2 witness: a MarkFinished is accepted for a record that was Uploading
C2_Witness ==
  /\ MarkFinishedAccepted
  /\ Uploading(last.pre)
  /\ last.request.upload_id \in UploadIds

\* the ShouldInitiate that follows the full flow: the record is Uploaded under
\* the request's hash, its blob is in the bucket, no validator has run
AsksAgainAfterFlow ==
  /\ last.op = "ShouldInitiate"
  /\ Uploaded(last.seen)
  /\ last.seen[1].quality = None
  /\ last.seen[1].upload[1].id \in finished
  /\ bucket[last.seen[1].upload[1].id] # None
  /\ last.request.hash = last.seen[1].upload[1].hash
  /\ ~last.request.force

\* C3 (as claimed): after the full flow, ShouldInitiate with the same hash and
\* force = false returns (false, DebuginfoEqual).
C3_SameHashAfterFlowIsEqual ==
  AsksAgainAfterFlow => last.reply = Decision(FALSE, REASON_DEBUGINFO_EQUAL)

\* C3 (amended): after the full flow, ShouldInitiate with the same hash and
\* force = false returns (false, AlreadyExists).
C3_SameHashAfterFlowAlreadyExists ==
  AsksAgainAfterFlow => last.reply = Decision(FALSE, REASON_DEBUGINFO_ALREADY_EXISTS)

\* C3 witness: the flow was run and the agent asks again with the same hash
C3_Witness ==
  /\ AsksAgainAfterFlow
  /\ last.reply.code = "Ok"
  /\ ~last.reply.should

\* two ShouldInitiate calls in a row from the current state, same arguments,
\* same answer of the mirror; the second at t2
TwoCalls(request, exists, t2) ==
  LET first == should_initiate_upload(request, store, now, exists) IN
  <<first, should_initiate_upload(request, first.store, t2, exists)>>

\* no staleness boundary of the record of key lies between now and t2
SameStaleness(key, t2) ==
  /\ t2 >= now
  /\ Uploading(store[key]) =>
       (is_upload_stale(store[key][1].upload[1], now)
          <=> is_upload_stale(store[key][1].upload[1], t2))

\* C4 (as claimed): two consecutive ShouldInitiate calls with the same
\* arguments return the same (should_initiate, reason) pair.
C4_ShouldInitiateIdempotent ==
  \A request \in ShouldInitiateRequests({Executable}), exists \in ExistsAnswers, t2 \in Times :
    SameStaleness(key_of(request), t2)
    => TwoCalls(request, exists, t2)[1].reply = TwoCalls(request, exists, t2)[2].reply

\* C4 (amended): they return the same pair unless the first call found no
\* record and recorded the Debuginfod source, returning (false, InDebuginfod).
C4_IdempotentUnlessRecorded ==
  \A request \in ShouldInitiateRequests({Executable}), exists \in ExistsAnswers, t2 \in Times :
    SameStaleness(key_of(request), t2)
    => \/ TwoCalls(request, exists, t2)[1].reply = TwoCalls(request, exists, t2)[2].reply
       \/ /\ store[key_of(request)] = None
          /\ exists # ""
          /\ TwoCalls(request, exists, t2)[1].reply
               = Decision(FALSE, REASON_DEBUGINFO_IN_DEBUGINFOD)
          /\ TwoCalls(request, exists, t2)[1].store[key_of(request)] # None

\* C4 witness: a ShouldInitiate has just answered on an existing record, and
\* the same call made again, later but within the same staleness, answers the same
C4_Witness ==
  /\ last.op = "ShouldInitiate"
  /\ last.reply.code = "Ok"
  /\ Uploading(last.seen)
  /\ \E t2 \in Times :
       /\ t2 > now
       /\ SameStaleness(key_of(last.request), t2)
       /\ TwoCalls(last.request, "", t2)[2].reply = last.reply

\* C5: on an Uploading record ShouldInitiate returns (true, UploadStale)
\* exactly when started_at + max_upload_duration + 2 min < now, and
\* (false, UploadInProgress) otherwise; an upload without started_at is
\* never stale.
C5_StaleExactlyAfterGrace ==
  /\ (last.op = "ShouldInitiate" /\ Uploading(last.seen))
     => last.reply =
          IF last.seen[1].upload[1].started_at[1] + 900 + 2 * 60 < now
          THEN Decision(TRUE, REASON_UPLOAD_STALE)
          ELSE Decision(FALSE, REASON_UPLOAD_IN_PROGRESS)
  /\ \A t \in Times, u \in UploadIds :
       ~is_upload_stale([id |-> u, hash |-> "h1", state |-> "Uploading",
                         started_at |-> None, finished_at |-> None], t)

\* C5 witness: an abandoned upload is found stale
C5_Witness ==
  /\ last.op = "ShouldInitiate"
  /\ Uploading(last.seen)
  /\ last.reply = Decision(TRUE, REASON_UPLOAD_STALE)

\* C5 witness of the boundary: at the last instant of the grace period the
\* upload is still in progress
C5_BoundaryReached ==
  /\ last.op = "ShouldInitiate"
  /\ Uploading(last.seen)
  /\ last.seen[1].upload[1].started_at[1] + 1020 = now
  /\ last.reply = Decision(FALSE, REASON_UPLOAD_IN_PROGRESS)

\* C6 (as claimed): of the two upload IDs returned by two overlapping Initiate
\* calls for the same key, at most one ever reaches state Uploaded.
C6_OneOfRacingUploadsFinishes ==
  \A pair \in raced : ~(pair[1] \in finished /\ pair[2] \in finished)

\* an Upload stream whose header is well-formed and names a key without a
\* record carrying the header's upload ID
UploadForUnknownUploadId ==
  /\ last.op = "Upload"
  /\ last.at = "header"
  /\ last.request.first.t = "Info"
  /\ last.request.first.type \in Kinds
  /\ Len(last.request.first.build_id) > 2
  /\ upload_id_of(last.pre) # Some(last.request.first.upload_id)

\* C7 (as claimed): an Upload whose header names a key with no record, with a
\* record without upload sub-record, or with another upload ID, is refused
\* with FailedPrecondition.
C7_UnknownUploadFailedPrecondition ==
  UploadForUnknownUploadId => last.reply.code = "FailedPrecondition"

\* a MarkFinished with a valid Build ID for a key without a record carrying
\* the request's upload ID
MarkFinishedForUnknownUploadId ==
  /\ last.op = "MarkFinished"
  /\ Len(last.request.build_id) > 2
  /\ upload_id_of(last.pre) # Some(last.request.upload_id)

\* C8 (as claimed): such a MarkFinished is rejected with FailedPrecondition
\* and leaves the record unchanged.
C8_RejectedFailedPrecondition ==
  MarkFinishedForUnknownUploadId
  => /\ last.reply.code = "FailedPrecondition"
     /\ store[key_of(last.request)] = last.pre

\* C8 (amended): such a MarkFinished is rejected with Internal and leaves the
\* record unchanged.
C8_RejectedInternal ==
  MarkFinishedForUnknownUploadId
  => /\ last.reply.code = "Internal"
     /\ store[key_of(last.request)] = last.pre

\* C8 witness: a MarkFinished under another upload ID hits an Uploading record
C8_Witness ==
  /\ MarkFinishedForUnknownUploadId
  /\ Uploading(last.pre)
  /\ Uploading(store[key_of(last.request)])

FromUpload(rec) == rec # None /\ rec[1].source = "Upload"

\* an Initiate with non-empty hash and non-zero size whose inner decision is
\* should_initiate = false
InitiateDecidedNo ==
  /\ last.op = "Initiate"
  /\ last.inner # None
  /\ last.inner[1].code = "Ok"
  /\ ~last.inner[1].should

\* C9: such an Initiate returns AlreadyExists when the reason is
\* DebuginfoEqual and FailedPrecondition for every other reason, and it
\* neither creates nor changes a record with source = Upload.
C9_RefusedInitiate ==
  InitiateDecidedNo
  => /\ last.reply.code = IF last.inner[1].reason = "DebuginfoEqual"
                          THEN "AlreadyExists"
                          ELSE "FailedPrecondition"
     /\ (FromUpload(last.pre) \/ FromUpload(store[key_of(last.request)]))
          => store[key_of(last.request)] = last.pre

\* C9 witness: an Initiate is refused as a duplicate of the Uploaded record
C9_Witness ==
  /\ InitiateDecidedNo
  /\ last.inner[1].reason = "DebuginfoEqual"
  /\ Uploaded(last.pre)

\* C10 (as claimed): on an Uploaded record marked not_valid_elf, ShouldInitiate
\* with another hash and force = false returns (true, DebuginfoNotEqual).
C10_InvalidElfNewHashAccepted ==
  (/\ last.op = "ShouldInitiate"
   /\ Uploaded(last.seen)
   /\ last.seen[1].quality = Some([not_valid_elf |-> TRUE])
   /\ last.request.hash \notin {"", last.seen[1].upload[1].hash}
   /\ ~last.request.force)
  => last.reply = Decision(TRUE, REASON_DEBUGINFO_NOT_EQUAL)

\* the reason codes, by the verdict they go with
RefusingReasons ==
  {REASON_DEBUGINFO_IN_DEBUGINFOD, REASON_UPLOAD_IN_PROGRESS,
   REASON_DEBUGINFO_ALREADY_EXISTS, REASON_DEBUGINFO_EQUAL}

AcceptingReasons ==
  {REASON_FIRST_TIME_SEEN, REASON_UPLOAD_STALE, REASON_DEBUGINFO_ALREADY_EXISTS_BUT_FORCED,
   REASON_DEBUGINFO_INVALID, REASON_DEBUGINFO_NOT_EQUAL, REASON_DEBUGINFOD_SOURCE,
   REASON_DEBUGINFOD_INVALID}

C12_UploadedHasBlob ==
  \A key \in Keys :
    Uploaded(store[key]) => bucket[store[key][1].upload[1].id] # None

\* an Upload stream has just returned after its Put failed
PutFailed == last.op = "Upload" /\ last.at = "put" /\ last.reply.code # "Ok"

\* the stream whose Put failed was sent for a record that is Uploading under
\* the stream's upload ID
PutFailedWhileUploading ==
  /\ PutFailed
  /\ Uploading(last.pre)
  /\ last.pre[1].upload[1].id = last.request.first.upload_id

\* C13 (as claimed): when the Put fails, Upload returns Internal, no blob is
\* visible at the upload ID and the record is as it was, in state Uploading
\* under the stream's upload ID.
C13_PutFailureLeavesUploadingNoBlob ==
  PutFailedWhileUploading
  => /\ last.reply.code = "Internal"
     /\ bucket[last.request.first.upload_id] = None
     /\ store[<<last.request.first.build_id, last.request.first.type>>] = last.pre

\* C13 (amended): when the Put fails, Upload returns Internal and leaves the
\* bucket and every record exactly as they were.
C13_PutFailureChangesNothing ==
  [][(PutFailed' /\ last = NoReply)
     => /\ last'.reply.code = "Internal"
        /\ bucket' = bucket
        /\ store' = store]_vars

\* C13 witness: the Put of the first stream of an Uploading record failed
C13_Witness ==
  /\ PutFailedWhileUploading
  /\ bucket[last.request.first.upload_id] = None

\* an Initiate with non-empty hash and size > max_upload_size has returned
OversizedInitiate ==
  /\ last.op = "Initiate"
  /\ last.request.hash # ""
  /\ last.request.size > 1000000000

\* the step of an Initiate neither mints an upload ID nor leaves a record
\* Uploading that was not there before
NothingInitiated ==
  /\ minted' = minted
  /\ issued' = issued
  /\ \A key \in Keys : store'[key] # store[key] => ~Uploading(store'[key])

\* C14 (as claimed): an Initiate with non-empty hash and size >
\* max_upload_size returns InvalidArgument whatever the record of its key,
\* and neither mints an upload ID nor records an Uploading record.
C14_OversizedInvalidArgument ==
  [][OversizedInitiate' /\ last = NoReply
     => last'.reply.code = "InvalidArgument" /\ NothingInitiated]_vars

\* C14 (amended): such an Initiate returns InvalidArgument when the Build ID
\* is invalid or the inner decision is should_initiate = true, AlreadyExists
\* when the decision is (false, DebuginfoEqual) and FailedPrecondition for
\* every other refusal; it neither mints an upload ID nor records an
\* Uploading record.
C14_OversizedNeverInitiates ==
  [][OversizedInitiate' /\ last = NoReply
     => /\ last'.inner # None
        /\ last'.reply.code =
             IF last'.inner[1].code # "Ok" \/ last'.inner[1].should
             THEN "InvalidArgument"
             ELSE IF last'.inner[1].reason = "DebuginfoEqual"
                  THEN "AlreadyExists"
                  ELSE "FailedPrecondition"
        /\ NothingInitiated]_vars

\* C14 witness: an oversized Initiate that the decision would accept is
\* rejected for its size
C14_Witness ==
  /\ OversizedInitiate
  /\ last.inner # None
  /\ last.inner[1].code = "Ok"
  /\ last.inner[1].should
  /\ last.reply.code = "InvalidArgument"

\* a ShouldInitiate with a valid Build ID found no record for its key
AskedForNewBuildId ==
  /\ last.op = "ShouldInitiate"
  /\ Len(last.request.build_id) > 2
  /\ last.seen = None

\* C15: for a key with no record, ShouldInitiate answers without consulting
\* upstream exactly when the Build ID type is neither Gnu nor
\* UnknownUnspecified, with (true, FirstTimeSeen) and no record created;
\* when upstream is consulted it returns (false, InDebuginfod) and leaves a
\* record with source = Debuginfod and no upload if Exists is non-empty, and
\* (true, FirstTimeSeen) and no record created if Exists is empty.
C15_NewBuildId ==
  AskedForNewBuildId
  => IF last.exists = None
     THEN /\ last.request.build_id_type \notin {0, 1}
          /\ last.reply = Decision(TRUE, REASON_FIRST_TIME_SEEN)
          /\ store[key_of(last.request)] = None
     ELSE IF last.exists[1] # ""
          THEN /\ last.reply = Decision(FALSE, REASON_DEBUGINFO_IN_DEBUGINFOD)
               /\ store[key_of(last.request)] # None
               /\ store[key_of(last.request)][1].source = "Debuginfod"
               /\ store[key_of(last.request)][1].upload = None
          ELSE /\ last.reply = Decision(TRUE, REASON_FIRST_TIME_SEEN)
               /\ store[key_of(last.request)] = last.pre

\* C15 witness: upstream has the Build ID of a key without record
C15_Witness ==
  /\ AskedForNewBuildId
  /\ last.exists # None
  /\ last.exists[1] # ""
  /\ last.pre = None
  /\ store[key_of(last.request)] # None

\* C15 witness of the other path: a Go Build ID is not looked up
C15_NotConsulted ==
  /\ AskedForNewBuildId
  /\ last.exists = None
  /\ last.request.build_id_type = 3

\* an Upload stream has returned whose first frame is ChunkData or carries no
\* data, or that has an Info or empty frame after the header
MalformedStream ==
  /\ last.op = "Upload"
  /\ \/ last.request.first.t \in {"Chunk", "Empty"}
     \/ \E i \in DOMAIN last.request.frames : last.request.frames[i].t \in {"Info", "Empty"}

RECURSIVE payload_of(_)
payload_of(frames) ==
  IF frames = <<>> THEN <<>> ELSE Head(frames).bytes \o payload_of(Tail(frames))

UploadSucceeded == last.op = "Upload" /\ last.reply.code = "Ok"

\* C17: a successful Upload with header upload ID U leaves at bucket key U
\* the concatenation of its chunks in frame order and returns the header's
\* build_id with size equal to its length; the bucket changes in no other
\* step and at no other key.
C17_BlobIsConcatenation ==
  [][/\ (UploadSucceeded' /\ last = NoReply)
        => /\ \A i \in DOMAIN last'.request.frames : last'.request.frames[i].t = "Chunk"
           /\ bucket'[last'.request.first.upload_id]
                = Some(payload_of(last'.request.frames))
           /\ last'.reply.size = Len(payload_of(last'.request.frames))
           /\ last'.reply.build_id = last'.request.first.build_id
     /\ \A u \in UploadIds :
          bucket'[u] # bucket[u]
          => UploadSucceeded' /\ last = NoReply /\ u = last'.request.first.upload_id]_vars

\* C17 witness: a stream of two chunks has been stored
C17_Witness ==
  /\ UploadSucceeded
  /\ Len(last.request.frames) = 2
  /\ bucket[last.request.first.upload_id] = Some(<<1, 2>>)
  /\ last.reply.size = 2

\* an Initiate with non-empty hash and 0 < size <= max_upload_size has
\* returned, whose inner decision was should_initiate = true
InitiateAfterYes ==
  /\ last.op = "Initiate"
  /\ last.inner # None
  /\ last.inner[1].code = "Ok"
  /\ last.inner[1].should
  /\ last.request.size <= 1000000000

\* C18 (as claimed): run in a state in which ShouldInitiate says yes, with no
\* operation in between, Initiate succeeds: it returns a fresh upload ID with
\* the streaming strategy and leaves the record with source = Upload, state
\* Uploading, that upload ID and the request hash.
C18_PhasesAgree ==
  InitiateAfterYes
  => /\ last.reply.code = "Ok"
     /\ last.reply.upload_strategy = "Grpc"
     /\ upload_id_of(last.pre) # Some(last.reply.upload_id)
     /\ FromUpload(store[key_of(last.request)])
     /\ Uploading(store[key_of(last.request)])
     /\ store[key_of(last.request)][1].upload[1].id = last.reply.upload_id
     /\ store[key_of(last.request)][1].upload[1].hash = last.request.hash

\* C19 (as claimed): on a record with source = Debuginfod, ShouldInitiate
\* returns should_initiate = true, with reason DebuginfodInvalid when
\* quality.not_valid_elf is true and DebuginfodSource when it is not or
\* quality is absent.
C19_DebuginfodSourceReason ==
  (/\ last.op = "ShouldInitiate"
   /\ last.seen # None
   /\ last.seen[1].source = "Debuginfod")
  => last.reply =
       Decision(TRUE, IF last.seen[1].quality = Some([not_valid_elf |-> TRUE])
                      THEN REASON_DEBUGINFOD_INVALID
                      ELSE REASON_DEBUGINFOD_SOURCE)

\* C20 (as claimed): the step in which a ShouldInitiate returns leaves a
\* record whose source is Upload as it was.
C20_ShouldInitiateKeepsUploadRecords ==
  (last.op = "ShouldInitiate" /\ FromUpload(last.pre))
  => store[key_of(last.request)] = last.pre

\* C21 (as claimed): while a record is Uploaded under an upload ID that
\* MarkFinished accepted, the blob at that upload ID does not change, and an
\* Upload stream carrying that upload ID is refused.
C21_BlobFrozenOnceUploaded ==
  [][\A key \in Keys :
       (/\ Uploaded(store[key])
        /\ store[key][1].upload[1].id \in finished)
       => /\ bucket'[store[key][1].upload[1].id] = bucket[store[key][1].upload[1].id]
          /\ (/\ last = NoReply
              /\ last'.op = "Upload"
              /\ last'.request.first.t = "Info"
              /\ last'.request.first.upload_id = store[key][1].upload[1].id)
             => last'.reply.code # "Ok"]_vars

====
